---- MODULE Spec2Model ----
(***************************************************************************)
(* Model of mjlab/scripts/pkl_to_csv.py: the module-level construction of  *)
(* the 29-to-23 joint index map, map_23_to_29, and main().                 *)
(*                                                                         *)
(* Python positions are 0-based; TLA+ sequences are 1-based.  Index values *)
(* stored in the model (dict values, map entries) are the Python values;   *)
(* a Python position p of a list is element p + 1 of the sequence.         *)
(***************************************************************************)
EXTENDS Integers, Sequences, FiniteSets, TLC

VARIABLES
  pc,                \* position in the module / in main()
  source_names,      \* the list read by line 79 (DOF_23_NAMES)
  target_names,      \* the list read by line 80 (DOF_29_NAMES)
  DOF23_INDEX,       \* _DOF23_INDEX, the dict of line 79
  DOF_29_TO_23_MAP,  \* the list of line 80
  pkl,               \* content of input_file as joblib.load returns it
  argv,              \* the arguments main() was called with
  fs0,               \* the output location before the run
  fs,                \* the output location now
  data,              \* local `data`
  motion_key,        \* local/parameter `motion_key`
  motion,            \* local `motion`
  dof_29,            \* local `dof_29`
  csv_data,          \* local `csv_data`
  stdout,            \* lines printed so far
  err                \* the exception that ended the run, or NoError

vars == <<pc, source_names, target_names, DOF23_INDEX, DOF_29_TO_23_MAP,
          pkl, argv, fs0, fs, data, motion_key, motion, dof_29, csv_data,
          stdout, err>>

mapvars == <<source_names, target_names, DOF23_INDEX, DOF_29_TO_23_MAP>>
mainvars == <<pkl, argv, fs0, fs, data, motion_key, motion, dof_29, csv_data,
              stdout, err>>

----------------------------------------------------------------------------
(* Bounds *)

MaxSrcLen == 3
MaxTgtLen == 5
MaxT == 2
MaxRecords == 2
ColsSlack == 1

----------------------------------------------------------------------------
(* Program constants *)

DOF_23_NAMES ==
  << "left_hip_pitch", "left_hip_roll", "left_hip_yaw", "left_knee",
     "left_ankle_pitch", "left_ankle_roll",
     "right_hip_pitch", "right_hip_roll", "right_hip_yaw", "right_knee",
     "right_ankle_pitch", "right_ankle_roll",
     "waist_yaw", "waist_roll", "waist_pitch",
     "left_shoulder_pitch", "left_shoulder_roll", "left_shoulder_yaw",
     "left_elbow",
     "right_shoulder_pitch", "right_shoulder_roll", "right_shoulder_yaw",
     "right_elbow" >>

DOF_29_NAMES_swapped ==
  << "left_hip_pitch", "left_hip_roll", "left_hip_yaw", "left_knee",
     "left_ankle_pitch", "left_ankle_roll",
     "right_hip_pitch", "right_hip_roll", "right_hip_yaw", "right_knee",
     "right_ankle_pitch", "right_ankle_roll",
     "waist_yaw", "waist_roll", "waist_pitch",
     "left_shoulder_pitch", "left_shoulder_roll", "left_shoulder_yaw",
     "left_elbow",
     "left_wrist_roll", "left_wrist_pitch", "left_wrist_yaw",
     "right_shoulder_roll", "right_shoulder_pitch", "right_shoulder_yaw",
     "right_elbow",
     "right_wrist_roll", "right_wrist_pitch", "right_wrist_yaw" >>

DOF_29_NAMES ==
  << "left_hip_pitch", "left_hip_roll", "left_hip_yaw", "left_knee",
     "left_ankle_pitch", "left_ankle_roll",
     "right_hip_pitch", "right_hip_roll", "right_hip_yaw", "right_knee",
     "right_ankle_pitch", "right_ankle_roll",
     "waist_yaw", "waist_roll", "waist_pitch",
     "left_shoulder_pitch", "left_shoulder_roll", "left_shoulder_yaw",
     "left_elbow",
     "left_wrist_roll", "left_wrist_pitch", "left_wrist_yaw",
     "right_shoulder_pitch", "right_shoulder_roll", "right_shoulder_yaw",
     "right_elbow",
     "right_wrist_roll", "right_wrist_pitch", "right_wrist_yaw" >>

\* np.zeros((T, 29), ...) in map_23_to_29
N_TARGET == 29

----------------------------------------------------------------------------
(* Values the model uses for Python objects *)

NoneVal == [none |-> TRUE]      \* a local not yet bound
NoneKey == "<None>"             \* motion_key: str | None = None
NoError == "NoError"
EmptyDict == [n \in {} |-> 0]

Range(s) == {s[i] : i \in DOMAIN s}

----------------------------------------------------------------------------
(* Lines 79-80: the index map *)

\* {name: i for i, name in enumerate(names)}: a later pair overwrites an
\* earlier one with the same key.
RECURSIVE DictComp(_, _, _)
DictComp(names, k, d) ==
  IF k > Len(names) THEN d
  ELSE DictComp(names, k + 1,
         [n \in (DOMAIN d) \cup {names[k]} |->
            IF n = names[k] THEN k - 1 ELSE d[n]])

DictGet_default0(d, name, default) ==
  IF name \in DOMAIN d THEN d[name] ELSE 0

\* dict.get(name, default)
DictGet(d, name, default) ==
  IF name \in DOMAIN d THEN d[name] ELSE default

\* [index.get(name, -1) for name in names]
RECURSIVE ListComp(_, _, _, _)
ListComp(index, names, k, acc) ==
  IF k > Len(names) THEN acc
  ELSE ListComp(index, names, k + 1,
                Append(acc, DictGet(index, names[k], -1)))

BuildIndex ==
  /\ pc = "import_index"
  /\ DOF23_INDEX' = DictComp(source_names, 1, EmptyDict)
  /\ pc' = "import_map"
  /\ UNCHANGED <<source_names, target_names, DOF_29_TO_23_MAP>>
  /\ UNCHANGED mainvars

BuildMap ==
  /\ pc = "import_map"
  /\ DOF_29_TO_23_MAP' = ListComp(DOF23_INDEX, target_names, 1, <<>>)
  /\ pc' = "load"
  /\ UNCHANGED <<source_names, target_names, DOF23_INDEX>>
  /\ UNCHANGED mainvars

----------------------------------------------------------------------------
(* numpy arrays: a 2-D array is its shape (T, N) and its T rows.  The     *)
(* shape is kept apart from the rows because an array with T = 0 still    *)
(* has N columns.                                                          *)

IndexError == [exc |-> "IndexError"]
ValueError == [exc |-> "ValueError"]
IsExc(x) == "exc" \in DOMAIN x

\* np.zeros((T, N))
Zeros(T, N) ==
  [shape |-> <<T, N>>, rows |-> [t \in 1..T |-> [c \in 1..N |-> 0]]]

\* dst[:, i_dst] = src[:, i_src], both indices in range
SetColumn(dst, i_dst, src, i_src) ==
  [dst EXCEPT !.rows =
     [t \in 1..dst.shape[1] |->
        [dst.rows[t] EXCEPT ![i_dst + 1] = src.rows[t][i_src + 1]]]]

\* as SetColumn, reading the frames of src last to first
SetColumnReversed(dst, i_dst, src, i_src) ==
  [dst EXCEPT !.rows =
     [t \in 1..dst.shape[1] |->
        [dst.rows[t] EXCEPT
           ![i_dst + 1] = src.rows[dst.shape[1] + 1 - t][i_src + 1]]]]

\* the loop of map_23_to_29, from element k of the map on
RECURSIVE Map23Loop(_, _, _, _)
Map23Loop(dof_23, map, k, acc) ==
  IF k > Len(map) THEN acc
  ELSE LET i_29 == k - 1
           i_23 == map[k]
       IN IF i_23 >= 0
          THEN IF i_23 >= dof_23.shape[2] \/ i_29 >= acc.shape[2]
               THEN IndexError
               ELSE Map23Loop(dof_23, map, k + 1,
                              SetColumn(acc, i_29, dof_23, i_23))
          ELSE Map23Loop(dof_23, map, k + 1, acc)

\* the loop writing column i_23 of the result instead of column i_29
RECURSIVE Map23LoopDst(_, _, _, _)
Map23LoopDst(dof_23, map, k, acc) ==
  IF k > Len(map) THEN acc
  ELSE LET i_23 == map[k]
       IN IF i_23 >= 0
          THEN IF i_23 >= dof_23.shape[2] \/ i_23 >= acc.shape[2]
               THEN IndexError
               ELSE Map23LoopDst(dof_23, map, k + 1,
                                 SetColumn(acc, i_23, dof_23, i_23))
          ELSE Map23LoopDst(dof_23, map, k + 1, acc)

\* the loop without the `if i_23 >= 0` test: numpy reads column -1 as the
\* last column
RECURSIVE Map23LoopNoTest(_, _, _, _)
Map23LoopNoTest(dof_23, map, k, acc) ==
  IF k > Len(map) THEN acc
  ELSE LET i_29 == k - 1
           i_23 == IF map[k] >= 0 THEN map[k] ELSE dof_23.shape[2] + map[k]
       IN IF i_23 < 0 \/ i_23 >= dof_23.shape[2] \/ i_29 >= acc.shape[2]
          THEN IndexError
          ELSE Map23LoopNoTest(dof_23, map, k + 1,
                               SetColumn(acc, i_29, dof_23, i_23))

\* the loop copying the frames in reverse order
RECURSIVE Map23LoopRev(_, _, _, _)
Map23LoopRev(dof_23, map, k, acc) ==
  IF k > Len(map) THEN acc
  ELSE LET i_29 == k - 1
           i_23 == map[k]
       IN IF i_23 >= 0
          THEN IF i_23 >= dof_23.shape[2] \/ i_29 >= acc.shape[2]
               THEN IndexError
               ELSE Map23LoopRev(dof_23, map, k + 1,
                                 SetColumnReversed(acc, i_29, dof_23, i_23))
          ELSE Map23LoopRev(dof_23, map, k + 1, acc)

map_23_to_29_dst(dof_23) ==
  Map23LoopDst(dof_23, DOF_29_TO_23_MAP, 1, Zeros(dof_23.shape[1], N_TARGET))

map_23_to_29_notest(dof_23) ==
  Map23LoopNoTest(dof_23, DOF_29_TO_23_MAP, 1,
                  Zeros(dof_23.shape[1], N_TARGET))

map_23_to_29_rev(dof_23) ==
  Map23LoopRev(dof_23, DOF_29_TO_23_MAP, 1, Zeros(dof_23.shape[1], N_TARGET))

\* map_23_to_29: the (T, 29) array, or IndexError
map_23_to_29(dof_23) ==
  Map23Loop(dof_23, DOF_29_TO_23_MAP, 1, Zeros(dof_23.shape[1], N_TARGET))

\* np.concatenate([b, a, c], axis=1)
Concatenate_rot_first(a, b, c) ==
  IF a.shape[1] # b.shape[1] \/ a.shape[1] # c.shape[1]
  THEN ValueError
  ELSE [shape |-> <<a.shape[1], a.shape[2] + b.shape[2] + c.shape[2]>>,
        rows |-> [t \in 1..a.shape[1] |->
                    b.rows[t] \o a.rows[t] \o c.rows[t]]]

\* np.concatenate([a, b, c], axis=1)
Concatenate(a, b, c) ==
  IF a.shape[1] # b.shape[1] \/ a.shape[1] # c.shape[1]
  THEN ValueError
  ELSE [shape |-> <<a.shape[1], a.shape[2] + b.shape[2] + c.shape[2]>>,
        rows |-> [t \in 1..a.shape[1] |->
                    a.rows[t] \o b.rows[t] \o c.rows[t]]]

----------------------------------------------------------------------------
(* np.savetxt(..., delimiter=",", fmt="%.8f")                              *)
(* A number is an integer count of 10^-9; "%.8f" keeps 8 decimals, so the  *)
(* text of a number is its sign character and a count of 10^-8.            *)

Abs(v) == IF v < 0 THEN -v ELSE v

\* round to the nearest 10^-8, an exact tie to the even neighbour
Fmt8(v) ==
  LET q == Abs(v) \div 10
      r == Abs(v) % 10
      up == r > 5 \/ (r = 5 /\ q % 2 = 1)
  IN [neg |-> v < 0, units |-> IF up THEN q + 1 ELSE q]

\* the text np.savetxt writes: one line per row, one field per column
SaveTxtText(arr) ==
  [lines |-> [t \in 1..arr.shape[1] |->
                [c \in 1..arr.shape[2] |-> Fmt8(arr.rows[t][c])]]]

NoFile == [absent |-> TRUE]
OldFile == [old |-> TRUE]

----------------------------------------------------------------------------
(* Inputs *)

SOURCE_COLS == 23

\* distinct in every (array, frame, column), of both signs, never a tie
Val(seed, kind, t, c) ==
  LET m == (((seed * 4 + kind) * 10 + t) * 100 + c) * 10
           + (IF c % 2 = 0 THEN 3 ELSE 7)
  IN IF (t + c) % 2 = 1 THEN -m ELSE m

ArrayOf(seed, kind, T, N) ==
  [shape |-> <<T, N>>,
   rows |-> [t \in 1..T |-> [c \in 1..N |-> Val(seed, kind, t, c)]]]

MotionOf(seed, T, cols, hasFps) ==
  LET base == [root_trans_offset |-> ArrayOf(seed, 1, T, 3),
               root_rot |-> ArrayOf(seed, 2, T, 4),
               dof |-> ArrayOf(seed, 3, T, cols)]
  IN IF hasFps
     THEN [root_trans_offset |-> base.root_trans_offset,
           root_rot |-> base.root_rot, dof |-> base.dof, fps |-> 50]
     ELSE base

Params ==
  [T : 0..MaxT,
   cols : (SOURCE_COLS - ColsSlack)..(SOURCE_COLS + ColsSlack),
   hasFps : BOOLEAN]

Keys == {"k1", "k2"}

\* the records of different keys hold different numbers
KeySeed(k) == IF k = "k1" THEN 1 ELSE 2

UniqueSeqs(S, n) ==
  {s \in UNION {[1..k -> S] : k \in 0..n} :
     \A i, j \in DOMAIN s : i # j => s[i] # s[j]}

\* a PKL file: a dict, in insertion order, from key to motion
Datas ==
  UNION {{[keys |-> ks,
           rec |-> [k \in Range(ks) |->
                      MotionOf(KeySeed(k), p[k].T, p[k].cols, p[k].hasFps)]] :
            p \in [Range(ks) -> Params]} :
           ks \in UniqueSeqs(Keys, MaxRecords)}

Argvs ==
  {[motion_key |-> k, list_keys |-> l] :
     k \in {NoneKey, "k2", "kx"}, l \in BOOLEAN}

FileSystems ==
  {[dir |-> FALSE, file |-> NoFile],
   [dir |-> TRUE, file |-> NoFile],
   [dir |-> TRUE, file |-> OldFile]}

SrcNames == {"a", "b", "c"}
TgtNames == {"a", "b", "c", "x", "y"}

Str(n) == CASE n = 30 -> "30" [] n = 50 -> "50" [] OTHER -> "n"

----------------------------------------------------------------------------
(* main() *)

\* line 107, and the test of line 109
Load ==
  /\ pc = "load"
  /\ data' = pkl
  /\ pc' = IF argv.list_keys THEN "list_keys" ELSE "select"
  /\ UNCHANGED mapvars
  /\ UNCHANGED <<pkl, argv, fs0, fs, motion_key, motion, dof_29, csv_data,
                 stdout, err>>

\* the line printed for one key in list mode
KeyLine(key) ==
  LET m == data.rec[key]
  IN [kind |-> "key", key |-> key, n_frames |-> m.dof.shape[1],
      fps |-> IF "fps" \in DOMAIN m THEN Str(m.fps) ELSE "?"]

\* lines 110-116 without the `return`: the run goes on to the conversion
ListKeys_no_return ==
  /\ pc = "list_keys"
  /\ stdout' = stdout \o <<[kind |-> "available"]>>
                 \o [i \in 1..Len(data.keys) |-> KeyLine(data.keys[i])]
  /\ motion' = IF data.keys = <<>> THEN motion
               ELSE data.rec[data.keys[Len(data.keys)]]
  /\ pc' = "select"
  /\ UNCHANGED mapvars
  /\ UNCHANGED <<pkl, argv, fs0, fs, data, motion_key, dof_29, csv_data, err>>

\* lines 110-116
ListKeys ==
  /\ pc = "list_keys"
  /\ stdout' = stdout \o <<[kind |-> "available"]>>
                 \o [i \in 1..Len(data.keys) |-> KeyLine(data.keys[i])]
  /\ motion' = IF data.keys = <<>> THEN motion
               ELSE data.rec[data.keys[Len(data.keys)]]
  /\ pc' = "done"
  /\ UNCHANGED mapvars
  /\ UNCHANGED <<pkl, argv, fs0, fs, data, motion_key, dof_29, csv_data, err>>

\* lines 118-120 taking the last key of the dict
SelectKey_last ==
  /\ pc = "select"
  /\ IF motion_key = NoneKey
     THEN IF data.keys = <<>>
          THEN /\ err' = "StopIteration"
               /\ pc' = "done"
               /\ UNCHANGED <<motion_key, stdout>>
          ELSE /\ motion_key' = data.keys[Len(data.keys)]
               /\ stdout' = Append(stdout,
                              [kind |-> "using",
                               key |-> data.keys[Len(data.keys)]])
               /\ pc' = "lookup"
               /\ err' = err
     ELSE /\ pc' = "lookup"
          /\ UNCHANGED <<motion_key, stdout, err>>
  /\ UNCHANGED mapvars
  /\ UNCHANGED <<pkl, argv, fs0, fs, data, motion, dof_29, csv_data>>

\* lines 118-120
SelectKey ==
  /\ pc = "select"
  /\ IF motion_key = NoneKey
     THEN IF data.keys = <<>>
          THEN /\ err' = "StopIteration"
               /\ pc' = "done"
               /\ UNCHANGED <<motion_key, stdout>>
          ELSE /\ motion_key' = data.keys[1]
               /\ stdout' = Append(stdout,
                              [kind |-> "using", key |-> data.keys[1]])
               /\ pc' = "lookup"
               /\ err' = err
     ELSE /\ pc' = "lookup"
          /\ UNCHANGED <<motion_key, stdout, err>>
  /\ UNCHANGED mapvars
  /\ UNCHANGED <<pkl, argv, fs0, fs, data, motion, dof_29, csv_data>>

\* the two lines printed by lines 128-129
MotionLines(m) ==
  << [kind |-> "motion", n_frames |-> m.root_trans_offset.shape[1],
      fps |-> IF "fps" \in DOMAIN m THEN Str(m.fps) ELSE Str(30)],
     [kind |-> "shapes", root_pos |-> m.root_trans_offset.shape,
      root_rot |-> m.root_rot.shape, dof |-> m.dof.shape] >>

\* lines 122-129 with the output directory made before the lookup
Lookup_after_mkdir ==
  /\ pc = "lookup"
  /\ IF motion_key \in Range(data.keys)
     THEN /\ motion' = data.rec[motion_key]
          /\ stdout' = stdout \o MotionLines(data.rec[motion_key])
          /\ pc' = "remap"
          /\ UNCHANGED <<err, fs>>
     ELSE /\ err' = "KeyError"
          /\ fs' = [fs EXCEPT !.dir = TRUE]
          /\ pc' = "done"
          /\ UNCHANGED <<motion, stdout>>
  /\ UNCHANGED mapvars
  /\ UNCHANGED <<pkl, argv, fs0, data, motion_key, dof_29, csv_data>>

\* lines 122-129
Lookup ==
  /\ pc = "lookup"
  /\ IF motion_key \in Range(data.keys)
     THEN /\ motion' = data.rec[motion_key]
          /\ stdout' = stdout \o MotionLines(data.rec[motion_key])
          /\ pc' = "remap"
          /\ err' = err
     ELSE /\ err' = "KeyError"
          /\ pc' = "done"
          /\ UNCHANGED <<motion, stdout>>
  /\ UNCHANGED mapvars
  /\ UNCHANGED <<pkl, argv, fs0, fs, data, motion_key, dof_29, csv_data>>

\* lines 133-136
Remap ==
  /\ pc = "remap"
  /\ LET r == map_23_to_29(motion.dof)
     IN IF IsExc(r)
        THEN /\ err' = r.exc
             /\ pc' = "done"
             /\ dof_29' = dof_29
        ELSE /\ dof_29' = r
             /\ pc' = "assemble"
             /\ err' = err
  /\ UNCHANGED mapvars
  /\ UNCHANGED <<pkl, argv, fs0, fs, data, motion_key, motion, csv_data,
                 stdout>>

\* line 139
Assemble ==
  /\ pc = "assemble"
  /\ LET r == Concatenate(motion.root_trans_offset, motion.root_rot, dof_29)
     IN IF IsExc(r)
        THEN /\ err' = r.exc
             /\ pc' = "done"
             /\ csv_data' = csv_data
        ELSE /\ csv_data' = r
             /\ pc' = "mkdir"
             /\ err' = err
  /\ UNCHANGED mapvars
  /\ UNCHANGED <<pkl, argv, fs0, fs, data, motion_key, motion, dof_29,
                 stdout>>

\* lines 141-142: mkdir(parents=True, exist_ok=True)
Mkdir ==
  /\ pc = "mkdir"
  /\ fs' = [fs EXCEPT !.dir = TRUE]
  /\ pc' = "savetxt"
  /\ UNCHANGED mapvars
  /\ UNCHANGED <<pkl, argv, fs0, data, motion_key, motion, dof_29, csv_data,
                 stdout, err>>

\* line 143
SaveTxt ==
  /\ pc = "savetxt"
  /\ fs' = [fs EXCEPT !.file = SaveTxtText(csv_data)]
  /\ pc' = "report"
  /\ UNCHANGED mapvars
  /\ UNCHANGED <<pkl, argv, fs0, data, motion_key, motion, dof_29, csv_data,
                 stdout, err>>

\* lines 145-154
Report ==
  /\ pc = "report"
  /\ stdout' = stdout \o
       << [kind |-> "saved", n_frames |-> csv_data.shape[1],
           n_columns |-> csv_data.shape[2]],
          [kind |-> "next",
           fps |-> IF "fps" \in DOMAIN motion THEN Str(motion.fps)
                   ELSE Str(30)] >>
  /\ pc' = "done"
  /\ UNCHANGED mapvars
  /\ UNCHANGED <<pkl, argv, fs0, fs, data, motion_key, motion, dof_29,
                 csv_data, err>>

----------------------------------------------------------------------------
(* Specifications *)

\* the module is imported and main() is called once
Init ==
  /\ pc = "import_index"
  /\ source_names = DOF_23_NAMES
  /\ target_names = DOF_29_NAMES
  /\ DOF23_INDEX = EmptyDict
  /\ DOF_29_TO_23_MAP = <<>>
  /\ pkl \in Datas
  /\ argv \in Argvs
  /\ fs0 \in FileSystems
  /\ fs = fs0
  /\ data = NoneVal
  /\ motion_key = argv.motion_key
  /\ motion = NoneVal
  /\ dof_29 = NoneVal
  /\ csv_data = NoneVal
  /\ stdout = <<>>
  /\ err = NoError

Next ==
  \/ BuildIndex
  \/ BuildMap
  \/ Load
  \/ ListKeys
  \/ SelectKey
  \/ Lookup
  \/ Remap
  \/ Assemble
  \/ Mkdir
  \/ SaveTxt
  \/ Report

Spec == Init /\ [][Next]_vars

\* lines 79-80 applied to any two name lists, the source names unique
InitMap ==
  /\ pc = "import_index"
  /\ source_names \in UniqueSeqs(SrcNames, MaxSrcLen)
  /\ target_names \in UNION {[1..k -> TgtNames] : k \in 0..MaxTgtLen}
  /\ DOF23_INDEX = EmptyDict
  /\ DOF_29_TO_23_MAP = <<>>
  /\ pkl = [keys |-> <<>>, rec |-> EmptyDict]
  /\ argv = [motion_key |-> NoneKey, list_keys |-> FALSE]
  /\ fs0 = [dir |-> FALSE, file |-> NoFile]
  /\ fs = fs0
  /\ data = NoneVal
  /\ motion_key = NoneKey
  /\ motion = NoneVal
  /\ dof_29 = NoneVal
  /\ csv_data = NoneVal
  /\ stdout = <<>>
  /\ err = NoError

NextMap ==
  \/ BuildIndex
  \/ BuildMap

SpecMap == InitMap /\ [][NextMap]_vars

----------------------------------------------------------------------------
(* Properties *)

IsArr(x) == "shape" \in DOMAIN x
IsMotion(x) == "dof" \in DOMAIN x
Written == "lines" \in DOMAIN fs.file

\* main() has bound `motion` at line 122 and not failed there
Selected ==
  /\ ~argv.list_keys
  /\ \/ pc \in {"remap", "assemble", "mkdir", "savetxt", "report"}
     \/ pc = "done" /\ err \notin {"KeyError", "StopIteration"}

\* map_23_to_29 has returned an array
Remapped ==
  /\ ~argv.list_keys
  /\ pc \in {"assemble", "mkdir", "savetxt", "report", "done"}
  /\ IsArr(dof_29)

\* C1: after the map is built from a source name list with unique names and
\* a target name list, the map has the target's length; entry i is the
\* 0-based position of target name i in the source list when the name occurs
\* there and -1 otherwise; nothing is raised; source [a,b,c] and target
\* [a,x,b,c,y] give [0,-1,1,2,-1].
C1_IndexMap ==
  pc = "load" =>
    /\ err = NoError
    /\ Len(DOF_29_TO_23_MAP) = Len(target_names)
    /\ \A i \in 1..Len(target_names) :
         IF \E j \in 1..Len(source_names) : source_names[j] = target_names[i]
         THEN \E j \in 1..Len(source_names) :
                /\ source_names[j] = target_names[i]
                /\ DOF_29_TO_23_MAP[i] = j - 1
         ELSE DOF_29_TO_23_MAP[i] = -1
    /\ (source_names = <<"a", "b", "c">>
          /\ target_names = <<"a", "x", "b", "c", "y">>
        => DOF_29_TO_23_MAP = <<0, -1, 1, 2, -1>>)

C1_Witness ==
  /\ pc = "load"
  /\ source_names = <<"a", "b", "c">>
  /\ target_names = <<"a", "x", "b", "c", "y">>
  /\ DOF_29_TO_23_MAP = <<0, -1, 1, 2, -1>>

\* C2: in the array map_23_to_29 returns, the column of every target joint
\* whose name is a source joint name equals, frame by frame, the source
\* column of that name.
C2_PassThrough ==
  Remapped =>
    \A i \in 1..Len(target_names) : \A j \in 1..Len(source_names) :
      target_names[i] = source_names[j] =>
        \A t \in 1..motion.dof.shape[1] :
          dof_29.rows[t][i] = motion.dof.rows[t][j]

C2_Witness ==
  /\ Remapped
  /\ pc = "done"
  /\ motion.dof.shape = <<2, 23>>
  /\ target_names[23] = "right_shoulder_pitch"
  /\ source_names[20] = "right_shoulder_pitch"
  /\ dof_29.rows[2][23] = motion.dof.rows[2][20]
  /\ dof_29.rows[2][23] # 0

\* C3: in the array map_23_to_29 returns, the column of every target joint
\* whose name is not a source joint name is zero in every frame.
C3_ZeroFill ==
  Remapped =>
    \A i \in 1..Len(target_names) :
      target_names[i] \notin Range(source_names) =>
        \A t \in 1..motion.dof.shape[1] : dof_29.rows[t][i] = 0

C3_Witness ==
  /\ Remapped
  /\ pc = "done"
  /\ motion.dof.shape = <<2, 23>>
  /\ target_names[20] = "left_wrist_roll"
  /\ \A t \in 1..2 : \A c \in 1..23 : motion.dof.rows[t][c] # 0
  /\ \A t \in 1..2 : dof_29.rows[t][20] = 0

\* C4: the array map_23_to_29 returns has as many frames as its input, T = 0
\* included, and 29 columns; every value of its frame t is zero or a value
\* of the input's frame t; the assembled table and the written file have
\* that many rows.
C4_FrameCount ==
  Remapped =>
    LET T == motion.dof.shape[1]
    IN /\ dof_29.shape = <<T, N_TARGET>>
       /\ Len(dof_29.rows) = T
       /\ \A t \in 1..T : \A i \in 1..N_TARGET :
            dof_29.rows[t][i] \in {0} \cup Range(motion.dof.rows[t])
       /\ IsArr(csv_data) =>
            csv_data.shape[1] = T /\ Len(csv_data.rows) = T
       /\ (Written /\ pc \in {"report", "done"}) =>
            Len(fs.file.lines) = T

C4_Witness ==
  /\ Remapped
  /\ pc = "done"
  /\ motion.dof.shape = <<0, 23>>
  /\ dof_29.shape = <<0, 29>>
  /\ csv_data.shape = <<0, 36>>
  /\ fs.file = [lines |-> <<>>]

\* C5: every row of the assembled table and every line of the written file
\* has 36 columns: the 3 of the root position, then the 4 of the root
\* orientation in their input order and sign, then the 29 remapped joints,
\* whichever key was selected.
C5_ColumnOrder ==
  (Selected /\ IsArr(csv_data)) =>
    LET pos == motion.root_trans_offset
        rot == motion.root_rot
    IN /\ csv_data.shape[2] = 36
       /\ \A t \in 1..csv_data.shape[1] :
            /\ Len(csv_data.rows[t]) = 36
            /\ \A c \in 1..3 : csv_data.rows[t][c] = pos.rows[t][c]
            /\ \A c \in 1..4 : csv_data.rows[t][3 + c] = rot.rows[t][c]
            /\ \A c \in 1..29 : csv_data.rows[t][7 + c] = dof_29.rows[t][c]
       /\ (Written /\ pc \in {"report", "done"}) =>
            \A t \in 1..Len(fs.file.lines) :
              /\ Len(fs.file.lines[t]) = 36
              /\ \A c \in 1..3 :
                   fs.file.lines[t][c] = Fmt8(pos.rows[t][c])
              /\ \A c \in 1..4 :
                   fs.file.lines[t][3 + c] = Fmt8(rot.rows[t][c])
              /\ \A c \in 1..29 :
                   fs.file.lines[t][7 + c] = Fmt8(dof_29.rows[t][c])

C5_Witness ==
  /\ Selected
  /\ pc = "done"
  /\ Written
  /\ motion_key = "k2"
  /\ Len(fs.file.lines) = 2
  /\ motion.root_rot.rows[1][2] < 0
  /\ fs.file.lines[1][5] = Fmt8(motion.root_rot.rows[1][2])
  /\ fs.file.lines[1][5].neg
  /\ fs.file.lines[1][5] # fs.file.lines[1][2]

\* C6: a run in list mode never changes the output location and never gets
\* to the conversion; it ends without an exception having printed, after
\* the heading, one line per key of the input in the input's order with the
\* key, the frame count of its record and its frame rate ("?" when the
\* record has none).
C6_ListOnly ==
  argv.list_keys =>
    /\ fs = fs0
    /\ pc \notin {"select", "lookup", "remap", "assemble", "mkdir",
                  "savetxt", "report"}
    /\ pc = "done" =>
         /\ err = NoError
         /\ Len(stdout) = 1 + Len(pkl.keys)
         /\ stdout[1] = [kind |-> "available"]
         /\ \A i \in 1..Len(pkl.keys) :
              LET m == pkl.rec[pkl.keys[i]]
              IN /\ stdout[1 + i].kind = "key"
                 /\ stdout[1 + i].key = pkl.keys[i]
                 /\ stdout[1 + i].n_frames = Len(m.dof.rows)
                 /\ stdout[1 + i].fps =
                      (IF "fps" \in DOMAIN m THEN "50" ELSE "?")

C6_Witness ==
  /\ argv.list_keys
  /\ pc = "done"
  /\ pkl.keys = <<"k2", "k1">>
  /\ Len(stdout) = 3
  /\ stdout[2].key = "k2" /\ stdout[2].n_frames = 2 /\ stdout[2].fps = "50"
  /\ stdout[3].key = "k1" /\ stdout[3].n_frames = 1 /\ stdout[3].fps = "?"
  /\ fs0 = [dir |-> FALSE, file |-> NoFile]
  /\ fs = fs0

\* C7: with list mode off and no key given, the key of the first record of
\* the input is reported before anything else and that record is the one
\* converted; with a key given, the record of exactly that key is the one
\* converted.
C7_RecordSelection ==
  /\ (~argv.list_keys /\ argv.motion_key = NoneKey
        /\ pc \in {"lookup", "remap", "assemble", "mkdir", "savetxt",
                   "report"})
     => /\ motion_key = pkl.keys[1]
        /\ stdout[1] = [kind |-> "using", key |-> pkl.keys[1]]
  /\ Selected =>
       LET k == IF argv.motion_key = NoneKey THEN pkl.keys[1]
                ELSE argv.motion_key
       IN /\ motion = pkl.rec[k]
          /\ IsArr(csv_data) =>
               \A t \in 1..csv_data.shape[1] : \A c \in 1..3 :
                 csv_data.rows[t][c] = pkl.rec[k].root_trans_offset.rows[t][c]
          /\ (Written /\ pc \in {"report", "done"}) =>
               /\ Len(fs.file.lines) = pkl.rec[k].dof.shape[1]
               /\ \A t \in 1..Len(fs.file.lines) : \A c \in 1..3 :
                    fs.file.lines[t][c] =
                      Fmt8(pkl.rec[k].root_trans_offset.rows[t][c])

C7_Witness ==
  /\ Selected
  /\ pc = "done"
  /\ err = NoError
  /\ argv.motion_key = NoneKey
  /\ pkl.keys = <<"k2", "k1">>
  /\ pkl.rec["k1"] # pkl.rec["k2"]
  /\ pkl.rec["k2"].dof.shape[1] = 2
  /\ pkl.rec["k1"].dof.shape[1] = 2
  /\ motion = pkl.rec["k2"]
  /\ stdout[1] = [kind |-> "using", key |-> "k2"]
  /\ Written

\* C8: a conversion asked for with a key the input does not have ends with
\* KeyError, never gets past the lookup, and leaves the output location as
\* it was: no directory is made and no file is written or overwritten.
C8_MissingKey ==
  (~argv.list_keys /\ argv.motion_key # NoneKey
     /\ argv.motion_key \notin Range(pkl.keys))
  => /\ fs = fs0
     /\ pc \notin {"remap", "assemble", "mkdir", "savetxt", "report"}
     /\ pc = "done" => err = "KeyError"

C8_Witness ==
  /\ ~argv.list_keys
  /\ argv.motion_key = "kx"
  /\ pkl.keys = <<"k1", "k2">>
  /\ pc = "done"
  /\ err = "KeyError"
  /\ fs0 = [dir |-> FALSE, file |-> NoFile]
  /\ fs = fs0

C10_MapBijective ==
  pc \notin {"import_index", "import_map"} =>
    LET M == DOF_29_TO_23_MAP
        used == {i \in 1..Len(M) : M[i] >= 0}
    IN /\ Len(M) = 29
       /\ \A i, j \in used : i # j => M[i] # M[j]
       /\ \A i, j \in used : i < j => M[i] < M[j]
       /\ {M[i] : i \in used} = 0..22
       /\ {i - 1 : i \in (1..Len(M)) \ used} = {19, 20, 21, 26, 27, 28}
       /\ \A i \in (1..Len(M)) \ used : M[i] = -1
       /\ Cardinality((1..Len(M)) \ used) = 6
       /\ \A s \in 0..22 : Cardinality({i \in 1..Len(M) : M[i] = s}) = 1

C10_Witness ==
  /\ pc = "load"
  /\ Len(DOF_29_TO_23_MAP) = 29
  /\ DOF_29_TO_23_MAP[19] = 18
  /\ DOF_29_TO_23_MAP[20] = -1
  /\ DOF_29_TO_23_MAP[23] = 19
  /\ DOF_29_TO_23_MAP[29] = -1

====
